---- MODULE Spec2Model ----
(***************************************************************************)
(* SagenDataQuality: a facade over the Great Expectations engine.          *)
(*                                                                         *)
(* The facade's state is the dataset, the engine context and the fixed     *)
(* batch_parameters mapping.  Every public method is one action.  The      *)
(* engine itself (context registries, data sources, assets, suites, ...)   *)
(* is the environment: its registries are modelled as sets keyed by name,  *)
(* and any engine call may additionally raise (an injected fault).         *)
(*                                                                         *)
(* Python values are tagged records; texts built with f-strings are        *)
(* sequences of text fragments, so "message contains name" is decidable.   *)
(***************************************************************************)
EXTENDS Integers, Sequences, FiniteSets, TLC

VARIABLES df, batch_parameters, context, pc, last

vars == <<df, batch_parameters, context, pc, last>>

(***************************************************************************)
(* Bounds and input pools                                                  *)
(***************************************************************************)
\* Longest list of expectations a suite is grown to.
MaxExpectations == 1

DataFrames == {"df_a", "df_b"}
SourceNames == {"ds"}
AssetNames == {"asset"}
BatchDefNames == {"bd"}
SuiteNames == {"suite"}
ValidationNames == {"vd"}
CheckpointNames == {"delq_history_checkpoint_dev", "cp"}
ActionListNames ==
    {"delq_history_checkpoint_dev_actions", "delq_history_checkpoint_dev",
     "cp_actions"}
RunIds == {"nightly"}
ResultFormats == {"COMPLETE", "SUMMARY"}
FrameTypes == {"pandas", "spark"}
Expectations == {"expect_column_values_to_not_be_null"}

(***************************************************************************)
(* Python values                                                           *)
(***************************************************************************)
None == [tag |-> "None"]
Str(s) == [tag |-> "str", s |-> s]
List(items) == [tag |-> "list", items |-> items]
DataFrame(id) == [tag |-> "DataFrame", id |-> id]
Dict(key, v) == [tag |-> "dict", key |-> key, v |-> v]
DataSource(n) == [tag |-> "DataSource", name |-> n]
DataAsset(ds, n) == [tag |-> "DataAsset", source |-> ds, name |-> n]
BatchDefinition(ds, a, n) ==
    [tag |-> "BatchDefinition", source |-> ds, asset |-> a, name |-> n]
Batch(bd, params) == [tag |-> "Batch", definition |-> bd, parameters |-> params]
ExpectationSuite(n) == [tag |-> "ExpectationSuite", name |-> n]
Expectation(e) == [tag |-> "Expectation", type |-> e]
ValidationDefinition(data, suite, n) ==
    [tag |-> "ValidationDefinition", data |-> data, suite |-> suite, name |-> n]
UpdateDataDocsAction(n, sites) ==
    [tag |-> "UpdateDataDocsAction", name |-> n, site_names |-> sites]
Checkpoint(n, vds, actions, rf) ==
    [tag |-> "Checkpoint", name |-> n, validation_definitions |-> vds,
     actions |-> actions, result_format |-> rf]
RunIdentifier(run_name) == [tag |-> "RunIdentifier", run_name |-> run_name]
ValidationResult(success) == [tag |-> "ValidationResult", success |-> success]
CheckpointResult(success, run_id) ==
    [tag |-> "CheckpointResult", success |-> success, run_id |-> run_id]

\* The engine entry points the facade calls on.
Gx == [tag |-> "gx"]
ContextDataSources == [tag |-> "context.data_sources"]
ContextSuites == [tag |-> "context.suites"]
ContextValidationDefinitions == [tag |-> "context.validation_definitions"]
ContextCheckpoints == [tag |-> "context.checkpoints"]

\* Python truthiness: None and the empty string are false, objects are true.
Truthy(v) == ~(v = None \/ v = Str(""))

\* The text "{v}" puts into an f-string, as a sequence of fragments.
Format(v) ==
    IF v.tag = "str" THEN <<v.s>>
    ELSE IF v.tag = "None" THEN <<"None">>
    ELSE IF v.tag \in {"DataSource", "DataAsset", "BatchDefinition",
                       "ExpectationSuite", "ValidationDefinition", "Checkpoint"}
         THEN <<v.tag, "(name='", v.name, "')">>
    ELSE <<"<", v.tag, ">">>

Contains(msg, fragment) == \E i \in 1..Len(msg) : msg[i] = fragment

(***************************************************************************)
(* The engine (environment)                                                *)
(***************************************************************************)
EmptyContext ==
    [data_sources |-> {}, assets |-> {}, batch_definitions |-> {},
     suites |-> {},
     expectations |-> [n \in SuiteNames |-> <<>>],
     saved |-> [n \in SuiteNames |-> <<>>],
     validation_definitions |-> {}, checkpoints |-> {}]

\* The methods each kind of engine object offers.
Methods(tag) ==
    CASE tag = "gx" -> {"ExpectationSuite", "ValidationDefinition", "Checkpoint",
                        "UpdateDataDocsAction", "RunIdentifier"}
      [] tag = "context.data_sources" -> {"add_pandas", "get"}
      [] tag = "context.suites" -> {"add", "get"}
      [] tag = "context.validation_definitions" -> {"add", "get"}
      [] tag = "context.checkpoints" -> {"add", "get"}
      [] tag = "DataSource" -> {"add_dataframe_asset", "get_asset"}
      [] tag = "DataAsset" -> {"add_batch_definition_whole_dataframe",
                               "get_batch_definition"}
      [] tag = "BatchDefinition" -> {"get_batch"}
      [] tag = "ExpectationSuite" -> {"add_expectation", "save"}
      [] tag = "ValidationDefinition" -> {"run"}
      [] tag = "Checkpoint" -> {"run"}
      [] OTHER -> {}

\* The name under which the engine files an object.
NameOf(v) == IF v.tag = "str" THEN v.s ELSE v.name

EOk(v, ctx) == [ok |-> TRUE, value |-> v, msg |-> <<>>, ctx |-> ctx]
EErr(msg, ctx) == [ok |-> FALSE, value |-> None, msg |-> msg, ctx |-> ctx]

EngineFault == "engine failure"
NotFound(what) == <<what, " is not in the project">>
Exists(what) == <<what, " already exists">>
BadCall(method) == <<"TypeError in ", method>>

\* env.fault   the engine call that fails this time (NoFault: none does);
\*             RunIdentifier is a plain value built from a str and is
\*             never made to fail
\* env.strict  whether the engine rejects calls outside its documented
\*             signatures (handles are duck-typed, so a permissive object
\*             accepts them)
\* env.success the outcome the engine reports for a validation run
EngineCall(ctx, env, target, method, args) ==
    IF method \notin Methods(target.tag)
    THEN EErr(<<"'", target.tag, "' object has no attribute '", method, "'">>, ctx)
    ELSE IF env.fault = <<target.tag, method>> THEN EErr(<<EngineFault>>, ctx)
    ELSE IF \E i \in 1..Len(args) : args[i] = None THEN EErr(BadCall(method), ctx)
    ELSE CASE target.tag = "gx" /\ method = "ExpectationSuite" ->
                EOk(ExpectationSuite(args[1].s), ctx)
           [] target.tag = "gx" /\ method = "ValidationDefinition" ->
                EOk(ValidationDefinition(args[1], args[2], args[3].s), ctx)
           [] target.tag = "gx" /\ method = "UpdateDataDocsAction" ->
                EOk(UpdateDataDocsAction(args[1].s, args[2]), ctx)
           [] target.tag = "gx" /\ method = "Checkpoint" ->
                EOk(Checkpoint(args[1].s, args[2], args[3], args[4]), ctx)
           [] target.tag = "gx" /\ method = "RunIdentifier" ->
                EOk(RunIdentifier(args[1].s), ctx)
           [] target.tag = "context.data_sources" /\ method = "add_pandas" ->
                IF args[1].s \in ctx.data_sources
                THEN EErr(Exists("data source"), ctx)
                ELSE EOk(DataSource(args[1].s),
                         [ctx EXCEPT !.data_sources = @ \cup {args[1].s}])
           [] target.tag = "context.data_sources" /\ method = "get" ->
                IF args[1].s \in ctx.data_sources
                THEN EOk(DataSource(args[1].s), ctx)
                ELSE EErr(NotFound("data source"), ctx)
           [] target.tag = "DataSource" /\ method = "add_dataframe_asset" ->
                IF <<target.name, args[1].s>> \in ctx.assets
                THEN EErr(Exists("data asset"), ctx)
                ELSE EOk(DataAsset(target.name, args[1].s),
                         [ctx EXCEPT !.assets = @ \cup {<<target.name, args[1].s>>}])
           [] target.tag = "DataSource" /\ method = "get_asset" ->
                IF args[1].tag = "str" /\ <<target.name, args[1].s>> \in ctx.assets
                THEN EOk(DataAsset(target.name, args[1].s), ctx)
                ELSE EErr(NotFound("data asset"), ctx)
           [] target.tag = "DataAsset"
                /\ method = "add_batch_definition_whole_dataframe" ->
                IF <<target.source, target.name, args[1].s>> \in ctx.batch_definitions
                THEN EErr(Exists("batch definition"), ctx)
                ELSE EOk(BatchDefinition(target.source, target.name, args[1].s),
                         [ctx EXCEPT !.batch_definitions =
                              @ \cup {<<target.source, target.name, args[1].s>>}])
           [] target.tag = "DataAsset" /\ method = "get_batch_definition" ->
                LET mine == {b \in ctx.batch_definitions :
                                b[1] = target.source /\ b[2] = target.name}
                IN IF args = <<>>
                   THEN \* called without the name the engine's signature requires
                        IF env.strict \/ mine = {} THEN EErr(BadCall(method), ctx)
                        ELSE LET b == CHOOSE b \in mine : TRUE
                             IN EOk(BatchDefinition(b[1], b[2], b[3]), ctx)
                   ELSE IF \E b \in mine : b[3] = args[1].s
                        THEN EOk(BatchDefinition(target.source, target.name,
                                                 args[1].s), ctx)
                        ELSE EErr(NotFound("batch definition"), ctx)
           [] target.tag = "BatchDefinition" /\ method = "get_batch" ->
                EOk(Batch(target, args[1]), ctx)
           [] target.tag = "context.suites" /\ method = "add" ->
                IF args[1].name \in ctx.suites
                THEN EErr(Exists("suite"), ctx)
                ELSE EOk(args[1], [ctx EXCEPT !.suites = @ \cup {args[1].name}])
           [] target.tag = "context.suites" /\ method = "get" ->
                IF args[1].s \in ctx.suites
                THEN EOk(ExpectationSuite(args[1].s), ctx)
                ELSE EErr(NotFound("suite"), ctx)
           [] target.tag = "ExpectationSuite" /\ method = "add_expectation" ->
                EOk(args[1],
                    [ctx EXCEPT !.expectations[target.name] = Append(@, args[1])])
           [] target.tag = "ExpectationSuite" /\ method = "save" ->
                IF target.name \in ctx.suites
                THEN EOk(target,
                         [ctx EXCEPT !.saved[target.name] =
                                         ctx.expectations[target.name]])
                ELSE EErr(NotFound("suite"), ctx)
           [] target.tag = "context.validation_definitions" /\ method = "add" ->
                IF args[1].tag # "ValidationDefinition" /\ env.strict
                THEN EErr(BadCall(method), ctx)
                ELSE IF \E v \in ctx.validation_definitions :
                            NameOf(v) = NameOf(args[1])
                THEN EErr(Exists("validation definition"), ctx)
                ELSE EOk(args[1], [ctx EXCEPT !.validation_definitions =
                                                  @ \cup {args[1]}])
           [] target.tag = "context.validation_definitions" /\ method = "get" ->
                IF \E v \in ctx.validation_definitions : NameOf(v) = args[1].s
                THEN EOk(CHOOSE v \in ctx.validation_definitions :
                            NameOf(v) = args[1].s, ctx)
                ELSE EErr(NotFound("validation definition"), ctx)
           [] target.tag = "ValidationDefinition" /\ method = "run" ->
                EOk(ValidationResult(env.success), ctx)
           [] target.tag = "context.checkpoints" /\ method = "add" ->
                IF \E c \in ctx.checkpoints : c.name = args[1].name
                THEN EErr(Exists("checkpoint"), ctx)
                ELSE EOk(args[1], [ctx EXCEPT !.checkpoints = @ \cup {args[1]}])
           [] target.tag = "context.checkpoints" /\ method = "get" ->
                IF \E c \in ctx.checkpoints : c.name = args[1].s
                THEN EOk(CHOOSE c \in ctx.checkpoints : c.name = args[1].s, ctx)
                ELSE EErr(NotFound("checkpoint"), ctx)
           [] target.tag = "Checkpoint" /\ method = "run" ->
                EOk(CheckpointResult(env.success, args[1]), ctx)

(***************************************************************************)
(* Outcomes of a facade method                                             *)
(*                                                                         *)
(* Every error the facade raises is a Python ValueError.  site tells the   *)
(* two kinds apart by where it was raised: "check" is a ValueError raised  *)
(* directly by an argument check (InvalidArgument), "wrapper" one raised   *)
(* by an except-clause around the body (OperationFailed).  raised is the   *)
(* message of the exception an engine call raised, <<>> if none did.       *)
(* calls is the log of the engine calls made, in order.                    *)
(***************************************************************************)
Ret(v, ctx, calls) ==
    [status |-> "return", value |-> v, site |-> "none", msg |-> <<>>,
     ctx |-> ctx, calls |-> calls, raised |-> <<>>, printed |-> <<>>]

ArgError(msg, ctx, calls) ==
    [status |-> "raise", value |-> None, site |-> "check", msg |-> msg,
     ctx |-> ctx, calls |-> calls, raised |-> <<>>, printed |-> <<>>]

\* One engine call, logged: its value, or the exception it raised.
Logged(e, calls, target, method, args) ==
    IF e.ok
    THEN Ret(e.value, e.ctx,
             Append(calls, [target |-> target, method |-> method, args |-> args,
                            ok |-> TRUE, ret |-> e.value]))
    ELSE [status |-> "raise", value |-> None, site |-> "engine", msg |-> e.msg,
          ctx |-> e.ctx,
          calls |-> Append(calls, [target |-> target, method |-> method,
                                   args |-> args, ok |-> FALSE, ret |-> None]),
          raised |-> e.msg, printed |-> <<>>]

Call(ctx, env, calls, target, method, args) ==
    Logged(EngineCall(ctx, env, target, method, args), calls, target, method, args)

\* Statement sequencing: an exception in r skips the rest of the block.
Then(r, rest(_)) == IF r.status = "raise" THEN r ELSE rest(r)

\* except Exception as e: raise ValueError(f"<prefix>{str(e)}")
Wrap(r, prefix) ==
    IF r.status = "raise"
    THEN [r EXCEPT !.site = "wrapper", !.msg = prefix \o r.msg]
    ELSE r

Raised(r) == r.status = "raise"

(***************************************************************************)
(* The facade's methods.  Each takes the context, the environment's        *)
(* choices and the log of engine calls so far, then its Python arguments   *)
(* in the order of the signature.                                          *)
(***************************************************************************)
\* set_data_source without the check of data_frame_type.
set_data_source_AnyFrameType(ctx, env, calls, data_source_name, data_frame_type) ==
    IF ~Truthy(data_source_name)
    THEN ArgError(<<"data_source_name cannot be empty">>, ctx, calls)
    ELSE Wrap(Call(ctx, env, calls, ContextDataSources, "add_pandas",
                   <<data_source_name>>),
              <<"Failed to create data source '">> \o Format(data_source_name)
                  \o <<"': ">>)

set_data_source(ctx, env, calls, data_source_name, data_frame_type) ==
    IF ~Truthy(data_source_name)
    THEN ArgError(<<"data_source_name cannot be empty">>, ctx, calls)
    ELSE IF data_frame_type # Str("pandas")
    THEN ArgError(<<"Only pandas DataFrame type is currently supported">>,
                  ctx, calls)
    ELSE Wrap(Call(ctx, env, calls, ContextDataSources, "add_pandas",
                   <<data_source_name>>),
              <<"Failed to create data source '">> \o Format(data_source_name)
                  \o <<"': ">>)

get_data_source(ctx, env, calls, data_source_name) ==
    IF ~Truthy(data_source_name)
    THEN ArgError(<<"data_source_name cannot be empty">>, ctx, calls)
    ELSE Wrap(Call(ctx, env, calls, ContextDataSources, "get",
                   <<data_source_name>>),
              <<"Data source '">> \o Format(data_source_name)
                  \o <<"' not found: ">>)

\* ResolveSource with the name taking precedence over the handle.
ResolveSource_NameFirst(ctx, env, calls, data_source, data_source_name) ==
    IF Truthy(data_source_name)
    THEN get_data_source(ctx, env, calls, data_source_name)
    ELSE IF data_source = None
    THEN ArgError(<<"Please provide either data_source object or data_source_name">>,
                  ctx, calls)
    ELSE Ret(data_source, ctx, calls)

\* if data_source is None: look it up by name, or fail
ResolveSource(ctx, env, calls, data_source, data_source_name) ==
    IF data_source = None
    THEN IF Truthy(data_source_name)
         THEN get_data_source(ctx, env, calls, data_source_name)
         ELSE ArgError(<<"Please provide either data_source object or data_source_name">>,
                       ctx, calls)
    ELSE Ret(data_source, ctx, calls)

set_data_asset(ctx, env, calls, data_source, data_asset_name, data_source_name) ==
    Then(ResolveSource(ctx, env, calls, data_source, data_source_name),
      LAMBDA source :
        IF ~Truthy(data_asset_name)
        THEN ArgError(<<"data_asset_name cannot be empty">>, source.ctx, source.calls)
        ELSE Wrap(Call(source.ctx, env, source.calls, source.value,
                       "add_dataframe_asset", <<data_asset_name>>),
                  <<"Failed to create data asset '">> \o Format(data_asset_name)
                      \o <<"': ">>))

get_data_asset(ctx, env, calls, data_asset_name, data_source, data_source_name) ==
    Then(ResolveSource(ctx, env, calls, data_source, data_source_name),
      LAMBDA source :
        IF ~Truthy(data_asset_name)
        THEN ArgError(<<"data_asset_name cannot be empty">>, source.ctx, source.calls)
        ELSE Wrap(Call(source.ctx, env, source.calls, source.value, "get_asset",
                       <<data_asset_name>>),
                  <<"Data asset '">> \o Format(data_asset_name)
                      \o <<"' not found: ">>))

set_batch_definition(ctx, env, calls, batch_definition_name, data_asset, data_asset_name, data_source_name) ==
    Then(IF data_asset = None
         THEN IF Truthy(data_asset_name) /\ Truthy(data_source_name)
              THEN get_data_asset(ctx, env, calls, data_asset_name, None,
                                  data_source_name)
              ELSE ArgError(<<"Please provide either data_asset object or data_asset_name and data_source_name">>,
                            ctx, calls)
         ELSE Ret(data_asset, ctx, calls),
      LAMBDA asset :
        IF ~Truthy(batch_definition_name)
        THEN ArgError(<<"batch_definition_name cannot be empty">>,
                      asset.ctx, asset.calls)
        ELSE Wrap(Call(asset.ctx, env, asset.calls, asset.value,
                       "add_batch_definition_whole_dataframe",
                       <<batch_definition_name>>),
                  <<"Failed to create batch definition '">>
                      \o Format(batch_definition_name) \o <<"': ">>))

get_batch_definition(ctx, env, calls, batch_definition_name, data_source_name, data_asset_name, data_asset) ==
    IF ~Truthy(batch_definition_name)
    THEN ArgError(<<"batch_definition_name cannot be empty">>, ctx, calls)
    ELSE Wrap(
           IF data_asset # None
           THEN Call(ctx, env, calls, data_asset, "get_batch_definition",
                     <<batch_definition_name>>)
           ELSE IF Truthy(data_source_name) /\ Truthy(data_asset_name)
           THEN Then(get_data_source(ctx, env, calls, data_source_name),
                  LAMBDA source :
                Then(get_data_asset(source.ctx, env, source.calls,
                                    data_asset_name, None, data_source_name),
                  LAMBDA asset :
                Call(asset.ctx, env, asset.calls, asset.value,
                     "get_batch_definition", <<batch_definition_name>>)))
           ELSE ArgError(<<"You must provide either a 'data_asset' object or both 'data_source_name' and 'data_asset_name'.">>,
                         ctx, calls),
           <<"Failed to retrieve batch definition '">>
               \o Format(batch_definition_name) \o <<"': ">>)

get_data_batch(ctx, env, calls, bp, batch_definition, batch_definition_name, data_source_name, data_asset_name, data_asset) ==
    Wrap(
      IF batch_definition # None
      THEN Call(ctx, env, calls, batch_definition, "get_batch", <<bp>>)
      ELSE IF Truthy(batch_definition_name) /\ Truthy(data_source_name)
              /\ Truthy(data_asset_name)
      THEN Then(get_batch_definition(ctx, env, calls, batch_definition_name,
                                     data_source_name, data_asset_name, None),
             LAMBDA found :
           Call(found.ctx, env, found.calls, found.value, "get_batch", <<bp>>))
      ELSE ArgError(<<"You must provide either a 'batch_definition' or the combination of 'batch_definition_name', 'data_source_name', and 'data_asset_name'.">>,
                    ctx, calls),
      <<"Failed to retrieve batch: ">>)

create_expectation_suite(ctx, env, calls, suite_name) ==
    IF ~Truthy(suite_name)
    THEN ArgError(<<"suite_name cannot be empty">>, ctx, calls)
    ELSE Wrap(
           Then(Call(ctx, env, calls, Gx, "ExpectationSuite", <<suite_name>>),
             LAMBDA suite :
           Then(Call(suite.ctx, env, suite.calls, ContextSuites, "add",
                     <<suite.value>>),
             LAMBDA added :
           Ret(suite.value, added.ctx, added.calls))),
           <<"Failed to create expectation suite '">>
               \o Format(suite_name) \o <<"': ">>)

get_expectation_suite(ctx, env, calls, suite_name) ==
    IF ~Truthy(suite_name)
    THEN ArgError(<<"suite_name cannot be empty">>, ctx, calls)
    ELSE Wrap(Call(ctx, env, calls, ContextSuites, "get", <<suite_name>>),
              <<"Failed to retrieve expectation suite '">>
                  \o Format(suite_name) \o <<"': ">>)

\* add_expectation persisting the suite before appending to it.
add_expectation_SavesFirst(ctx, env, calls, expectation, suite, suite_name) ==
    IF expectation = None
    THEN ArgError(<<"expectation cannot be None">>, ctx, calls)
    ELSE IF suite = None /\ ~Truthy(suite_name)
    THEN ArgError(<<"Either 'suite' or 'suite_name' must be provided">>, ctx, calls)
    ELSE Wrap(
           Then(IF suite # None THEN Ret(suite, ctx, calls)
                ELSE get_expectation_suite(ctx, env, calls, suite_name),
             LAMBDA target_suite :
           Then(Call(target_suite.ctx, env, target_suite.calls,
                     target_suite.value, "save", <<>>),
             LAMBDA saved :
           Then(Call(saved.ctx, env, saved.calls, target_suite.value,
                     "add_expectation", <<expectation>>),
             LAMBDA added :
           Ret(target_suite.value, added.ctx, added.calls)))),
           <<"Failed to add expectation: ">>)

add_expectation(ctx, env, calls, expectation, suite, suite_name) ==
    IF expectation = None
    THEN ArgError(<<"expectation cannot be None">>, ctx, calls)
    ELSE IF suite = None /\ ~Truthy(suite_name)
    THEN ArgError(<<"Either 'suite' or 'suite_name' must be provided">>, ctx, calls)
    ELSE Wrap(
           Then(IF suite # None THEN Ret(suite, ctx, calls)
                ELSE get_expectation_suite(ctx, env, calls, suite_name),
             LAMBDA target_suite :
           Then(Call(target_suite.ctx, env, target_suite.calls,
                     target_suite.value, "add_expectation", <<expectation>>),
             LAMBDA added :
           Then(Call(added.ctx, env, added.calls, target_suite.value, "save", <<>>),
             LAMBDA saved :
           Ret(target_suite.value, saved.ctx, saved.calls)))),
           <<"Failed to add expectation: ">>)

\* The if/else of create_validation_definition.  Its value is what the
\* variable validation_definition_name holds afterwards: the
\* ValidationDefinition built in the else-branch, or still the name.
BindValidationDefinition(ctx, env, calls, validation_definition_name, suite, batch_definition, data_source_name, data_asset_name, data_asset) ==
    IF batch_definition = None
    THEN Then(IF data_asset # None
              THEN Call(ctx, env, calls, data_asset, "get_batch_definition", <<>>)
              ELSE IF Truthy(data_source_name) /\ Truthy(data_asset_name)
              THEN Then(get_data_source(ctx, env, calls, data_source_name),
                     LAMBDA source :
                   \* positional call: the source lands in the
                   \* data_asset_name parameter and the asset name in the
                   \* data_source parameter of get_data_asset
                   Then(get_data_asset(source.ctx, env, source.calls,
                                       source.value, data_asset_name, None),
                     LAMBDA asset :
                   Call(asset.ctx, env, asset.calls, asset.value,
                        "get_batch_definition", <<>>)))
              ELSE ArgError(<<"You must provide either a 'batch_definition', a 'data_asset', or both 'data_source_name' and 'data_asset_name'.">>,
                            ctx, calls),
           LAMBDA resolved :
             Ret(validation_definition_name, resolved.ctx, resolved.calls))
    ELSE Call(ctx, env, calls, Gx, "ValidationDefinition",
              <<batch_definition, suite, validation_definition_name>>)

\* The except-clause formats validation_definition_name as it is bound when
\* the exception arrives.
WrapValidationDefinition(bound, added, validation_definition_name) ==
    Wrap(IF Raised(bound) THEN bound ELSE added,
         <<"Failed to create validation definition '">>
             \o Format(IF Raised(bound) THEN validation_definition_name
                       ELSE bound.value)
             \o <<"': ">>)

AddValidationDefinition(bound, env, validation_definition_name) ==
    WrapValidationDefinition(
        bound,
        Call(bound.ctx, env, bound.calls, ContextValidationDefinitions, "add",
             <<bound.value>>),
        validation_definition_name)

create_validation_definition(ctx, env, calls, validation_definition_name, suite, batch_definition, data_source_name, data_asset_name, data_asset) ==
    IF ~Truthy(validation_definition_name)
    THEN ArgError(<<"validation_definition_name cannot be empty">>, ctx, calls)
    ELSE IF suite = None
    THEN ArgError(<<"suite cannot be None">>, ctx, calls)
    ELSE AddValidationDefinition(
             BindValidationDefinition(ctx, env, calls, validation_definition_name,
                                      suite, batch_definition, data_source_name,
                                      data_asset_name, data_asset),
             env, validation_definition_name)

\* run_validation handing the dataframe itself to run.
run_validation_PassesFrame(ctx, env, calls, bp, validation_definition_name) ==
    IF ~Truthy(validation_definition_name)
    THEN ArgError(<<"validation_definition_name cannot be empty">>, ctx, calls)
    ELSE Wrap(
           Then(Call(ctx, env, calls, ContextValidationDefinitions, "get",
                     <<validation_definition_name>>),
             LAMBDA validation_definition :
           Call(validation_definition.ctx, env, validation_definition.calls,
                validation_definition.value, "run", <<bp.v>>)),
           <<"Failed to run validation: ">>)

run_validation(ctx, env, calls, bp, validation_definition_name) ==
    IF ~Truthy(validation_definition_name)
    THEN ArgError(<<"validation_definition_name cannot be empty">>, ctx, calls)
    ELSE Wrap(
           Then(Call(ctx, env, calls, ContextValidationDefinitions, "get",
                     <<validation_definition_name>>),
             LAMBDA validation_definition :
           Call(validation_definition.ctx, env, validation_definition.calls,
                validation_definition.value, "run", <<bp>>)),
           <<"Failed to run validation: ">>)

get_validation_definition(ctx, env, calls, validation_definition_name) ==
    IF ~Truthy(validation_definition_name)
    THEN ArgError(<<"validation_definition_name cannot be empty">>, ctx, calls)
    ELSE Wrap(Call(ctx, env, calls, ContextValidationDefinitions, "get",
                   <<validation_definition_name>>),
              <<"Failed to retrieve validation definition '">>
                  \o Format(validation_definition_name) \o <<"': ">>)

\* DefaultSite without the special case.
DefaultSite_NoSpecialCase(action_list_name) == "local_site2"

\* The site the default action of an action list targets.
DefaultSite(action_list_name) ==
    IF action_list_name = Str("delq_history_checkpoint_dev_actions")
    THEN "local_site1" ELSE "local_site2"

create_action_list(ctx, env, calls, action_list_name, actions) ==
    IF ~Truthy(action_list_name)
    THEN ArgError(<<"action_list_name cannot be empty">>, ctx, calls)
    ELSE Wrap(
           IF actions = None
           THEN Then(Call(ctx, env, calls, Gx, "UpdateDataDocsAction",
                          <<Str("Update Data Docs for " \o action_list_name.s),
                            List(<<Str(DefaultSite(action_list_name))>>)>>),
                  LAMBDA action :
                Ret(List(<<action.value>>), action.ctx, action.calls))
           ELSE Ret(actions, ctx, calls),
           <<"Failed to create action list '">>
               \o Format(action_list_name) \o <<"': ">>)

\* create_checkpoint naming the default action list after the checkpoint
\* itself, without the "_actions" suffix.
create_checkpoint_NoSuffix(ctx, env, calls, checkpoint_name, validation_definition, action_list, result_format) ==
    IF ~Truthy(checkpoint_name)
    THEN ArgError(<<"checkpoint_name cannot be empty">>, ctx, calls)
    ELSE IF validation_definition = None
    THEN ArgError(<<"validation_definition cannot be None">>, ctx, calls)
    ELSE Wrap(
           Then(IF action_list = None
                THEN create_action_list(ctx, env, calls, checkpoint_name, None)
                ELSE Ret(action_list, ctx, calls),
             LAMBDA actions :
           Then(Call(actions.ctx, env, actions.calls, Gx, "Checkpoint",
                     <<checkpoint_name, List(<<validation_definition>>),
                       actions.value, Dict("result_format", result_format)>>),
             LAMBDA checkpoint :
           Then(Call(checkpoint.ctx, env, checkpoint.calls, ContextCheckpoints,
                     "add", <<checkpoint.value>>),
             LAMBDA added :
           Ret(checkpoint.value, added.ctx, added.calls)))),
           <<"Failed to create checkpoint '">>
               \o Format(checkpoint_name) \o <<"': ">>)

create_checkpoint(ctx, env, calls, checkpoint_name, validation_definition, action_list, result_format) ==
    IF ~Truthy(checkpoint_name)
    THEN ArgError(<<"checkpoint_name cannot be empty">>, ctx, calls)
    ELSE IF validation_definition = None
    THEN ArgError(<<"validation_definition cannot be None">>, ctx, calls)
    ELSE Wrap(
           Then(IF action_list = None
                THEN create_action_list(ctx, env, calls,
                                        Str(checkpoint_name.s \o "_actions"), None)
                ELSE Ret(action_list, ctx, calls),
             LAMBDA actions :
           Then(Call(actions.ctx, env, actions.calls, Gx, "Checkpoint",
                     <<checkpoint_name, List(<<validation_definition>>),
                       actions.value, Dict("result_format", result_format)>>),
             LAMBDA checkpoint :
           Then(Call(checkpoint.ctx, env, checkpoint.calls, ContextCheckpoints,
                     "add", <<checkpoint.value>>),
             LAMBDA added :
           Ret(checkpoint.value, added.ctx, added.calls)))),
           <<"Failed to create checkpoint '">>
               \o Format(checkpoint_name) \o <<"': ">>)

\* RunName ignoring the run_id.
RunName_IgnoresRunId(checkpoint_name, run_id) ==
    Str("run_" \o checkpoint_name.s)

\* The run name run_checkpoint gives the run identifier.
RunName(checkpoint_name, run_id) ==
    IF Truthy(run_id) THEN run_id ELSE Str("run_" \o checkpoint_name.s)

\* Report raising when the validation was unsuccessful.
Report_RaisesOnFailure(results, checkpoint_name) ==
    IF ~results.value.success
    THEN [results EXCEPT !.status = "raise", !.value = None, !.site = "check",
                         !.msg = <<"validation failed">>]
    ELSE results

\* print(f"Checkpoint '{checkpoint_name}' validation failed|succeeded")
Report(results, checkpoint_name) ==
    [results EXCEPT !.printed =
        <<"Checkpoint '">> \o Format(checkpoint_name)
          \o (IF ~results.value.success THEN <<"' validation failed">>
              ELSE <<"' validation succeeded">>)]

run_checkpoint(ctx, env, calls, bp, checkpoint_name, run_id) ==
    IF ~Truthy(checkpoint_name)
    THEN ArgError(<<"checkpoint_name cannot be empty">>, ctx, calls)
    ELSE Wrap(
           Then(Call(ctx, env, calls, Gx, "RunIdentifier",
                     <<RunName(checkpoint_name, run_id)>>),
             LAMBDA run_identifier :
           Then(Call(run_identifier.ctx, env, run_identifier.calls,
                     ContextCheckpoints, "get", <<checkpoint_name>>),
             LAMBDA checkpoint :
           Then(Call(checkpoint.ctx, env, checkpoint.calls, checkpoint.value,
                     "run", <<run_identifier.value, bp>>),
             LAMBDA results :
           Report(results, checkpoint_name)))),
           <<"Failed to run checkpoint '">>
               \o Format(checkpoint_name) \o <<"': ">>)

(***************************************************************************)
(* State machine                                                           *)
(*                                                                         *)
(* pc is the caller's position: "ready" to make a call, or "returned" with *)
(* the outcome of the call in last.  The facade is synchronous and         *)
(* single-threaded, so calls never overlap.                                *)
(***************************************************************************)
NoFault == <<"none", "none">>
NoCall == [op |-> "none"]

OptName(S) == {None} \cup {Str(n) : n \in S}
ReqName(S) == {Str("")} \cup {Str(n) : n \in S}

SourceHandles == {None} \cup {DataSource(n) : n \in context.data_sources}
AssetHandles == {None} \cup {DataAsset(a[1], a[2]) : a \in context.assets}
BatchDefHandles ==
    {None} \cup {BatchDefinition(b[1], b[2], b[3]) : b \in context.batch_definitions}
SuiteHandles == {None} \cup {ExpectationSuite(n) : n \in context.suites}
ValidationHandles == {None} \cup context.validation_definitions
CustomActions ==
    List(<<UpdateDataDocsAction("publish", List(<<Str("team_site")>>))>>)
ActionLists == {None, List(<<>>), CustomActions}

Envs(faults, stricts, successes) ==
    [fault : {NoFault} \cup faults, strict : stricts, success : successes]

\* __init__: df must not be None; the context is created once and
\* batch_parameters is fixed to {"dataframe": df}.
Init ==
    /\ df \in {DataFrame(d) : d \in DataFrames}
    /\ batch_parameters = Dict("dataframe", df)
    /\ context = EmptyContext
    /\ pc = "ready"
    /\ last = NoCall

\* A call ran to completion: it returned or raised.
Finish(op, args, env, r) ==
    /\ \A n \in SuiteNames : Len(r.ctx.expectations[n]) <= MaxExpectations
    /\ context' = r.ctx
    /\ last' = [op |-> op, args |-> args, env |-> env, before |-> context,
                status |-> r.status, value |-> r.value, site |-> r.site,
                msg |-> r.msg, calls |-> r.calls, raised |-> r.raised,
                printed |-> r.printed]
    /\ pc' = "returned"
    /\ UNCHANGED <<df, batch_parameters>>

Do_set_data_source ==
    /\ pc = "ready"
    /\ \E name \in ReqName(SourceNames), type \in {Str(t) : t \in FrameTypes},
          env \in Envs({<<"context.data_sources", "add_pandas">>}, {TRUE}, {TRUE}) :
          Finish("set_data_source",
                 [data_source_name |-> name, data_frame_type |-> type], env,
                 set_data_source(context, env, <<>>, name, type))

Do_get_data_source ==
    /\ pc = "ready"
    /\ \E name \in ReqName(SourceNames),
          env \in Envs({<<"context.data_sources", "get">>}, {TRUE}, {TRUE}) :
          Finish("get_data_source", [data_source_name |-> name], env,
                 get_data_source(context, env, <<>>, name))

Do_set_data_asset ==
    /\ pc = "ready"
    /\ \E source \in SourceHandles, name \in ReqName(AssetNames),
          sname \in OptName(SourceNames),
          env \in Envs({<<"context.data_sources", "get">>,
                        <<"DataSource", "add_dataframe_asset">>}, {TRUE}, {TRUE}) :
          Finish("set_data_asset",
                 [data_source |-> source, data_asset_name |-> name,
                  data_source_name |-> sname], env,
                 set_data_asset(context, env, <<>>, source, name, sname))

Do_get_data_asset ==
    /\ pc = "ready"
    /\ \E name \in ReqName(AssetNames), source \in SourceHandles,
          sname \in OptName(SourceNames),
          env \in Envs({<<"context.data_sources", "get">>,
                        <<"DataSource", "get_asset">>}, {TRUE}, {TRUE}) :
          Finish("get_data_asset",
                 [data_asset_name |-> name, data_source |-> source,
                  data_source_name |-> sname], env,
                 get_data_asset(context, env, <<>>, name, source, sname))

Do_set_batch_definition ==
    /\ pc = "ready"
    /\ \E name \in ReqName(BatchDefNames), asset \in AssetHandles,
          aname \in OptName(AssetNames), sname \in OptName(SourceNames),
          env \in Envs({<<"DataSource", "get_asset">>,
                        <<"DataAsset", "add_batch_definition_whole_dataframe">>},
                       {TRUE}, {TRUE}) :
          Finish("set_batch_definition",
                 [batch_definition_name |-> name, data_asset |-> asset,
                  data_asset_name |-> aname, data_source_name |-> sname], env,
                 set_batch_definition(context, env, <<>>, name, asset, aname, sname))

Do_get_batch_definition ==
    /\ pc = "ready"
    /\ \E name \in ReqName(BatchDefNames), sname \in OptName(SourceNames),
          aname \in OptName(AssetNames), asset \in AssetHandles,
          env \in Envs({<<"context.data_sources", "get">>,
                        <<"DataAsset", "get_batch_definition">>}, {TRUE}, {TRUE}) :
          Finish("get_batch_definition",
                 [batch_definition_name |-> name, data_source_name |-> sname,
                  data_asset_name |-> aname, data_asset |-> asset], env,
                 get_batch_definition(context, env, <<>>, name, sname, aname, asset))

Do_get_data_batch ==
    /\ pc = "ready"
    /\ \E bd \in BatchDefHandles, name \in OptName(BatchDefNames),
          sname \in OptName(SourceNames), aname \in OptName(AssetNames),
          asset \in AssetHandles,
          env \in Envs({<<"DataAsset", "get_batch_definition">>,
                        <<"BatchDefinition", "get_batch">>}, {TRUE}, {TRUE}) :
          Finish("get_data_batch",
                 [batch_definition |-> bd, batch_definition_name |-> name,
                  data_source_name |-> sname, data_asset_name |-> aname,
                  data_asset |-> asset], env,
                 get_data_batch(context, env, <<>>, batch_parameters, bd, name,
                                sname, aname, asset))

Do_create_expectation_suite ==
    /\ pc = "ready"
    /\ \E name \in ReqName(SuiteNames),
          env \in Envs({<<"gx", "ExpectationSuite">>, <<"context.suites", "add">>},
                       {TRUE}, {TRUE}) :
          Finish("create_expectation_suite", [suite_name |-> name], env,
                 create_expectation_suite(context, env, <<>>, name))

Do_get_expectation_suite ==
    /\ pc = "ready"
    /\ \E name \in ReqName(SuiteNames),
          env \in Envs({<<"context.suites", "get">>}, {TRUE}, {TRUE}) :
          Finish("get_expectation_suite", [suite_name |-> name], env,
                 get_expectation_suite(context, env, <<>>, name))

Do_add_expectation ==
    /\ pc = "ready"
    /\ \E exp \in {None} \cup {Expectation(e) : e \in Expectations},
          suite \in SuiteHandles, name \in OptName(SuiteNames),
          env \in Envs({<<"context.suites", "get">>,
                        <<"ExpectationSuite", "add_expectation">>,
                        <<"ExpectationSuite", "save">>}, {TRUE}, {TRUE}) :
          Finish("add_expectation",
                 [expectation |-> exp, suite |-> suite, suite_name |-> name], env,
                 add_expectation(context, env, <<>>, exp, suite, name))

Do_create_validation_definition ==
    /\ pc = "ready"
    /\ \E name \in ReqName(ValidationNames), suite \in SuiteHandles,
          bd \in BatchDefHandles, sname \in OptName(SourceNames),
          aname \in OptName(AssetNames), asset \in AssetHandles,
          env \in Envs({<<"gx", "ValidationDefinition">>,
                        <<"DataAsset", "get_batch_definition">>,
                        <<"context.validation_definitions", "add">>},
                       BOOLEAN, {TRUE}) :
          Finish("create_validation_definition",
                 [validation_definition_name |-> name, suite |-> suite,
                  batch_definition |-> bd, data_source_name |-> sname,
                  data_asset_name |-> aname, data_asset |-> asset], env,
                 create_validation_definition(context, env, <<>>, name, suite, bd,
                                              sname, aname, asset))

Do_run_validation ==
    /\ pc = "ready"
    /\ \E name \in ReqName(ValidationNames),
          env \in Envs({<<"context.validation_definitions", "get">>,
                        <<"ValidationDefinition", "run">>}, {TRUE}, BOOLEAN) :
          Finish("run_validation", [validation_definition_name |-> name], env,
                 run_validation(context, env, <<>>, batch_parameters, name))

Do_get_validation_definition ==
    /\ pc = "ready"
    /\ \E name \in ReqName(ValidationNames),
          env \in Envs({<<"context.validation_definitions", "get">>},
                       {TRUE}, {TRUE}) :
          Finish("get_validation_definition",
                 [validation_definition_name |-> name], env,
                 get_validation_definition(context, env, <<>>, name))

Do_create_action_list ==
    /\ pc = "ready"
    /\ \E name \in ReqName(ActionListNames), actions \in ActionLists,
          env \in Envs({<<"gx", "UpdateDataDocsAction">>}, {TRUE}, {TRUE}) :
          Finish("create_action_list",
                 [action_list_name |-> name, actions |-> actions], env,
                 create_action_list(context, env, <<>>, name, actions))

Do_create_checkpoint ==
    /\ pc = "ready"
    /\ \E name \in ReqName(CheckpointNames), vd \in ValidationHandles,
          actions \in ActionLists, rf \in {Str(f) : f \in ResultFormats},
          env \in Envs({<<"gx", "UpdateDataDocsAction">>, <<"gx", "Checkpoint">>,
                        <<"context.checkpoints", "add">>}, {TRUE}, {TRUE}) :
          Finish("create_checkpoint",
                 [checkpoint_name |-> name, validation_definition |-> vd,
                  action_list |-> actions, result_format |-> rf], env,
                 create_checkpoint(context, env, <<>>, name, vd, actions, rf))

Do_run_checkpoint ==
    /\ pc = "ready"
    /\ \E name \in ReqName(CheckpointNames),
          run_id \in {None, Str("")} \cup {Str(r) : r \in RunIds},
          env \in Envs({<<"context.checkpoints", "get">>, <<"Checkpoint", "run">>},
                       {TRUE}, BOOLEAN) :
          Finish("run_checkpoint", [checkpoint_name |-> name, run_id |-> run_id],
                 env,
                 run_checkpoint(context, env, <<>>, batch_parameters, name, run_id))

\* The caller has the outcome and goes on to its next call.
Resume ==
    /\ pc = "returned"
    /\ pc' = "ready"
    /\ last' = NoCall
    /\ UNCHANGED <<df, batch_parameters, context>>

Next ==
    \/ Do_set_data_source
    \/ Do_get_data_source
    \/ Do_set_data_asset
    \/ Do_get_data_asset
    \/ Do_set_batch_definition
    \/ Do_get_batch_definition
    \/ Do_get_data_batch
    \/ Do_create_expectation_suite
    \/ Do_get_expectation_suite
    \/ Do_add_expectation
    \/ Do_create_validation_definition
    \/ Do_run_validation
    \/ Do_get_validation_definition
    \/ Do_create_action_list
    \/ Do_create_checkpoint
    \/ Do_run_checkpoint
    \/ Resume

Spec == Init /\ [][Next]_vars

(***************************************************************************)
(* Vocabulary of the properties                                            *)
(***************************************************************************)
Called(op) == pc = "returned" /\ last.op = op
Returned == last.status = "return"
\* The ValueError raised directly by an argument check.
InvalidArgument == last.status = "raise" /\ last.site = "check"
\* The ValueError an except-clause raises ("Failed to ...", "... not found").
OperationFailed == last.status = "raise" /\ last.site = "wrapper"

\* The operation's own required name argument.
OwnName ==
    CASE last.op \in {"set_data_source", "get_data_source"} ->
            last.args.data_source_name
      [] last.op \in {"set_data_asset", "get_data_asset"} ->
            last.args.data_asset_name
      [] last.op \in {"set_batch_definition", "get_batch_definition"} ->
            last.args.batch_definition_name
      [] last.op \in {"create_expectation_suite", "get_expectation_suite"} ->
            last.args.suite_name
      [] last.op \in {"create_validation_definition", "run_validation",
                      "get_validation_definition"} ->
            last.args.validation_definition_name
      [] last.op = "create_action_list" -> last.args.action_list_name
      [] last.op \in {"create_checkpoint", "run_checkpoint"} ->
            last.args.checkpoint_name

NamedOps ==
    {"set_data_source", "get_data_source", "set_data_asset", "get_data_asset",
     "set_batch_definition", "get_batch_definition", "create_expectation_suite",
     "get_expectation_suite", "create_validation_definition",
     "get_validation_definition", "create_action_list", "create_checkpoint"}

CallIndexes == 1..Len(last.calls)

\* A name-based lookup: context.data_sources.get, data_source.get_asset,
\* context.suites.get.
IsLookup(c) ==
    \/ c.target.tag \in {"context.data_sources", "context.suites"} /\ c.method = "get"
    \/ c.method = "get_asset"

(***************************************************************************)
(* C1.  With an empty own name, each create/set/get operation fails with   *)
(* InvalidArgument before any engine call is made, leaving the context     *)
(* unchanged.                                                              *)
(***************************************************************************)
C1_EmptyNameFailsBeforeAnyCall ==
    (pc = "returned" /\ last.op \in NamedOps /\ OwnName = Str(""))
        => /\ InvalidArgument
           /\ last.calls = <<>>
           /\ context = last.before

(***************************************************************************)
(* C2.  get_data_asset, get_batch_definition and                           *)
(* create_validation_definition, given valid names but neither a handle    *)
(* nor the complete name pair, fail with InvalidArgument (not              *)
(* OperationFailed) and make no engine call.                               *)
(***************************************************************************)
NeitherHandleNorNames ==
    \/ /\ Called("get_data_asset")
       /\ last.args.data_source = None
       /\ ~Truthy(last.args.data_source_name)
    \/ /\ Called("get_batch_definition")
       /\ last.args.data_asset = None
       /\ ~(Truthy(last.args.data_source_name) /\ Truthy(last.args.data_asset_name))
    \/ /\ Called("create_validation_definition")
       /\ last.args.suite # None
       /\ last.args.batch_definition = None
       /\ last.args.data_asset = None
       /\ ~(Truthy(last.args.data_source_name) /\ Truthy(last.args.data_asset_name))

C2_NeitherShapeIsInvalidArgument ==
    (NeitherHandleNorNames /\ Truthy(OwnName))
        => /\ InvalidArgument
           /\ ~OperationFailed
           /\ last.calls = <<>>

(***************************************************************************)
(* C3.  create_validation_definition given only the names of a registered  *)
(* data source and of a registered asset of it that has a batch            *)
(* definition (the engine raising no fault of its own) resolves the asset  *)
(* by name lookup and returns.                                             *)
(***************************************************************************)
ByRegisteredNames ==
    /\ Called("create_validation_definition")
    /\ Truthy(last.args.validation_definition_name)
    /\ last.args.suite # None
    /\ last.args.batch_definition = None
    /\ last.args.data_asset = None
    /\ Truthy(last.args.data_source_name)
    /\ Truthy(last.args.data_asset_name)
    /\ last.args.data_source_name.s \in last.before.data_sources
    /\ <<last.args.data_source_name.s, last.args.data_asset_name.s>>
           \in last.before.assets
    /\ \E b \in last.before.batch_definitions :
           /\ b[1] = last.args.data_source_name.s
           /\ b[2] = last.args.data_asset_name.s
    /\ last.before.validation_definitions = {}
    /\ last.env.fault = NoFault

C3_NamePairIsAccepted ==
    ByRegisteredNames
        => /\ Returned
           /\ \E i \in CallIndexes :
                 /\ last.calls[i].method = "get_asset"
                 /\ last.calls[i].target = DataSource(last.args.data_source_name.s)
                 /\ last.calls[i].ok

(***************************************************************************)
(* C4.  Whenever create_validation_definition returns, what it handed to   *)
(* context.validation_definitions.add is a validation definition carrying  *)
(* the given name, the given suite and a batch definition.                 *)
(***************************************************************************)
C4_AddsValidationDefinition ==
    (Called("create_validation_definition") /\ Returned)
        => \E i \in CallIndexes :
              /\ last.calls[i].target = ContextValidationDefinitions
              /\ last.calls[i].method = "add"
              /\ last.calls[i].args[1].tag = "ValidationDefinition"
              /\ last.calls[i].args[1].name = last.args.validation_definition_name.s
              /\ last.calls[i].args[1].suite = last.args.suite
              /\ last.calls[i].args[1].data.tag = "BatchDefinition"

(***************************************************************************)
(* C5.  When an engine call raises with message m during an operation on   *)
(* the entity named n, the operation raises OperationFailed with a message *)
(* containing both m and n.  Read generously: n may be the operation's own *)
(* name argument or a name that was passed to the engine call that raised. *)
(***************************************************************************)
NamesTheTarget ==
    \/ Contains(last.msg, OwnName.s)
    \/ \E i \in CallIndexes :
          /\ ~last.calls[i].ok
          /\ \E j \in 1..Len(last.calls[i].args) :
                /\ last.calls[i].args[j].tag = "str"
                /\ Contains(last.msg, last.calls[i].args[j].s)

C5_WrappedMessageHasCauseAndName ==
    (/\ pc = "returned"
     /\ last.op \in NamedOps \cup {"run_validation", "run_checkpoint"}
     /\ last.raised # <<>>)
        => /\ OperationFailed
           /\ \A i \in 1..Len(last.raised) : Contains(last.msg, last.raised[i])
           /\ NamesTheTarget

(***************************************************************************)
(* C6.  An operation given its direct handle uses it and makes no          *)
(* name-based lookup, whether or not names are supplied too.               *)
(***************************************************************************)
HandleOps ==
    {"set_data_asset", "get_data_asset", "set_batch_definition",
     "get_batch_definition", "get_data_batch", "add_expectation",
     "create_validation_definition"}

Handle ==
    CASE last.op \in {"set_data_asset", "get_data_asset"} -> last.args.data_source
      [] last.op \in {"set_batch_definition", "get_batch_definition"} ->
            last.args.data_asset
      [] last.op \in {"get_data_batch", "create_validation_definition"} ->
            last.args.batch_definition
      [] last.op = "add_expectation" -> last.args.suite

\* A lookup made to resolve something by name: any of the name-based
\* lookups, or data_asset.get_batch_definition, on an object other than the
\* handle the caller passed (a call on the handle itself is the handle
\* being used).
IsResolution(c) ==
    /\ c.target # Handle
    /\ IsLookup(c) \/ c.method = "get_batch_definition"

UsesHandle(c) ==
    c.target = Handle \/ \E j \in 1..Len(c.args) : c.args[j] = Handle

C6_HandleBypassesLookup ==
    (pc = "returned" /\ last.op \in HandleOps /\ Handle # None)
        => /\ \A i \in CallIndexes : ~IsResolution(last.calls[i])
           /\ last.calls # <<>> => UsesHandle(last.calls[1])

C6_Witness ==
    /\ Called("get_data_batch")
    /\ last.args.batch_definition # None
    /\ Truthy(last.args.batch_definition_name)
    /\ Truthy(last.args.data_source_name)
    /\ Truthy(last.args.data_asset_name)
    /\ Returned
    /\ last.calls # <<>>

(***************************************************************************)
(* C7.  batch_parameters stays {"dataframe": df} for the life of the       *)
(* facade, and every get_batch / run call receives exactly that mapping.   *)
(***************************************************************************)
C7_BatchParametersFixed ==
    /\ batch_parameters = [tag |-> "dict", key |-> "dataframe", v |-> df]
    /\ pc = "returned" =>
          \A i \in CallIndexes :
              last.calls[i].method \in {"get_batch", "run"} =>
                  last.calls[i].args[Len(last.calls[i].args)]
                      = [tag |-> "dict", key |-> "dataframe", v |-> df]

C7_Witness ==
    /\ Called("run_validation")
    /\ Returned
    /\ \E i \in CallIndexes : last.calls[i].method = "run" /\ last.calls[i].ok

(***************************************************************************)
(* C8.  create_action_list with a non-empty name and no actions returns    *)
(* one update-data-docs action for site "local_site1" when the name is     *)
(* "delq_history_checkpoint_dev_actions" and for "local_site2" otherwise;  *)
(* supplied actions are returned unchanged and no action is created.       *)
(***************************************************************************)
C8_DefaultActionList ==
    (Called("create_action_list") /\ Truthy(last.args.action_list_name))
        => IF last.args.actions = None
           THEN /\ last.env.fault = NoFault => Returned
                /\ Returned =>
                     /\ last.value.tag = "list"
                     /\ Len(last.value.items) = 1
                     /\ last.value.items[1].tag = "UpdateDataDocsAction"
                     /\ last.value.items[1].site_names =
                          [tag |-> "list",
                           items |-> <<[tag |-> "str",
                              s |-> IF last.args.action_list_name.s
                                         = "delq_history_checkpoint_dev_actions"
                                    THEN "local_site1" ELSE "local_site2"]>>]
           ELSE /\ Returned
                /\ last.value = last.args.actions
                /\ last.calls = <<>>

C8_Witness ==
    /\ Called("create_action_list")
    /\ last.args.action_list_name = Str("delq_history_checkpoint_dev_actions")
    /\ last.args.actions = None
    /\ Returned

(***************************************************************************)
(* C9.  run_checkpoint hands checkpoint.run a run identifier named         *)
(* "run_" + checkpoint_name when no run_id is given, and named exactly     *)
(* run_id when a non-empty run_id is given.                                *)
(***************************************************************************)
C9_RunIdentifierName ==
    (Called("run_checkpoint") /\ last.args.run_id # Str(""))
        => \A i \in CallIndexes :
              (last.calls[i].target.tag = "Checkpoint" /\ last.calls[i].method = "run")
                  => /\ last.calls[i].args[1].tag = "RunIdentifier"
                     /\ last.calls[i].args[1].run_name =
                          IF last.args.run_id = None
                          THEN "run_" \o last.args.checkpoint_name.s
                          ELSE last.args.run_id.s

C9_Witness ==
    /\ Called("run_checkpoint")
    /\ last.args.run_id = None
    /\ Returned
    /\ \E i \in CallIndexes : last.calls[i].method = "run" /\ last.calls[i].ok

(***************************************************************************)
(* C10.  When checkpoint.run returns a results object, run_checkpoint      *)
(* returns that object, successful or not; it raises OperationFailed only  *)
(* when the checkpoint lookup or the run call itself raised.               *)
(***************************************************************************)
C10_UnsuccessfulRunIsReturned ==
    Called("run_checkpoint")
        => /\ \A i \in CallIndexes :
                 (last.calls[i].method = "run" /\ last.calls[i].ok)
                     => /\ Returned
                        /\ last.value = last.calls[i].ret
                        /\ last.value.success = last.env.success
           /\ OperationFailed =>
                 \E i \in CallIndexes :
                     /\ ~last.calls[i].ok
                     /\ \/ last.calls[i].target = ContextCheckpoints
                              /\ last.calls[i].method = "get"
                        \/ last.calls[i].target.tag = "Checkpoint"
                              /\ last.calls[i].method = "run"

C10_Witness ==
    /\ Called("run_checkpoint")
    /\ Returned
    /\ last.value.tag = "CheckpointResult"
    /\ ~last.value.success

(***************************************************************************)
(* C11.  set_data_source with a non-empty name: any data_frame_type other  *)
(* than "pandas" fails with InvalidArgument before any call on the         *)
(* context, so nothing is registered; with "pandas" it makes exactly one   *)
(* context.data_sources.add_pandas(name) call and returns its result.      *)
(***************************************************************************)
C11_OnlyPandasReachesTheContext ==
    (Called("set_data_source") /\ Truthy(last.args.data_source_name))
        => IF last.args.data_frame_type = [tag |-> "str", s |-> "pandas"]
           THEN /\ Len(last.calls) = 1
                /\ last.calls[1].target = ContextDataSources
                /\ last.calls[1].method = "add_pandas"
                /\ last.calls[1].args = <<last.args.data_source_name>>
                /\ last.calls[1].ok =>
                      Returned /\ last.value = last.calls[1].ret
                /\ ~last.calls[1].ok => OperationFailed
           ELSE /\ InvalidArgument
                /\ last.calls = <<>>
                /\ context.data_sources = last.before.data_sources
                /\ context = last.before

C11_Witness ==
    /\ Called("set_data_source")
    /\ Truthy(last.args.data_source_name)
    /\ last.args.data_frame_type = Str("spark")
    /\ last.args.data_source_name.s \notin context.data_sources
    /\ InvalidArgument

(***************************************************************************)
(* C12.  add_expectation on success appends the expectation to the target  *)
(* suite and then saves that same suite, in that order, and returns it.    *)
(* If resolving the suite or appending raises, save is never called and    *)
(* the call fails with OperationFailed.  If expectation is None, or        *)
(* neither suite nor suite_name is given, it fails with InvalidArgument    *)
(* before any lookup, append or save.                                      *)
(***************************************************************************)
\* The suite the call works on: the handle, else the one named.
TargetSuite ==
    IF last.args.suite # None THEN last.args.suite
    ELSE [tag |-> "ExpectationSuite", name |-> last.args.suite_name.s]

IsSave(c) == c.target.tag = "ExpectationSuite" /\ c.method = "save"
IsAppend(c) == c.target.tag = "ExpectationSuite" /\ c.method = "add_expectation"

C12_AppendThenSave ==
    Called("add_expectation")
        => IF last.args.expectation = None
              \/ (last.args.suite = None /\ ~Truthy(last.args.suite_name))
           THEN InvalidArgument /\ last.calls = <<>> /\ context = last.before
           ELSE /\ Returned =>
                     /\ Len(last.calls) >= 2
                     /\ last.calls[Len(last.calls) - 1].target = TargetSuite
                     /\ last.calls[Len(last.calls) - 1].method = "add_expectation"
                     /\ last.calls[Len(last.calls) - 1].args
                            = <<last.args.expectation>>
                     /\ last.calls[Len(last.calls)].target = TargetSuite
                     /\ last.calls[Len(last.calls)].method = "save"
                     /\ \A i \in 1..(Len(last.calls) - 2) :
                            ~IsSave(last.calls[i]) /\ ~IsAppend(last.calls[i])
                     /\ last.value = TargetSuite
                     /\ context.expectations[TargetSuite.name] =
                            Append(last.before.expectations[TargetSuite.name],
                                   last.args.expectation)
                     /\ context.saved[TargetSuite.name] =
                            context.expectations[TargetSuite.name]
                /\ (\E i \in CallIndexes :
                        ~last.calls[i].ok /\ ~IsSave(last.calls[i]))
                     => /\ \A i \in CallIndexes : ~IsSave(last.calls[i])
                        /\ OperationFailed
                        /\ context.saved = last.before.saved
                /\ ~Returned => OperationFailed

C12_Witness ==
    /\ Called("add_expectation")
    /\ last.args.suite = None
    /\ Truthy(last.args.suite_name)
    /\ Returned
    /\ Len(last.calls) = 3
    /\ context.saved[last.args.suite_name.s] = <<last.args.expectation>>

(***************************************************************************)
(* C13.  create_checkpoint without an action_list builds the default       *)
(* action list from checkpoint_name + "_actions": the checkpoint's single  *)
(* default action targets "local_site1" exactly when checkpoint_name is    *)
(* "delq_history_checkpoint_dev" and "local_site2" otherwise.  The         *)
(* checkpoint handed to context.checkpoints.add bundles exactly the one    *)
(* given validation definition and {"result_format": result_format}.       *)
(***************************************************************************)
\* The object handed to context.checkpoints.add is c.args[1].
IsCheckpointAdd(c) == c.target = ContextCheckpoints /\ c.method = "add"

C13_DefaultActionsOfCheckpoint ==
    Called("create_checkpoint")
        => /\ \A i \in CallIndexes :
                 IsCheckpointAdd(last.calls[i]) =>
                   /\ last.calls[i].args[1].tag = "Checkpoint"
                   /\ last.calls[i].args[1].name = last.args.checkpoint_name.s
                   /\ last.calls[i].args[1].validation_definitions =
                        [tag |-> "list",
                         items |-> <<last.args.validation_definition>>]
                   /\ last.calls[i].args[1].result_format =
                        [tag |-> "dict", key |-> "result_format",
                         v |-> last.args.result_format]
                   /\ last.args.action_list = None =>
                        /\ Len(last.calls[i].args[1].actions.items) = 1
                        /\ last.calls[i].args[1].actions.items[1] =
                             [tag |-> "UpdateDataDocsAction",
                              name |-> "Update Data Docs for "
                                          \o last.args.checkpoint_name.s
                                          \o "_actions",
                              site_names |->
                                [tag |-> "list",
                                 items |-> <<[tag |-> "str",
                                    s |-> IF last.args.checkpoint_name.s
                                               = "delq_history_checkpoint_dev"
                                          THEN "local_site1"
                                          ELSE "local_site2"]>>]]
                   /\ last.args.action_list # None =>
                        last.calls[i].args[1].actions = last.args.action_list
                   /\ last.calls[i].ok =>
                        /\ Returned
                        /\ last.value = last.calls[i].args[1]
                        /\ last.value \in context.checkpoints
           /\ Returned => \E i \in CallIndexes : IsCheckpointAdd(last.calls[i])

C13_Witness ==
    /\ Called("create_checkpoint")
    /\ last.args.checkpoint_name = Str("delq_history_checkpoint_dev")
    /\ last.args.action_list = None
    /\ Returned
    /\ last.value \in context.checkpoints
    /\ last.value.actions.items[1].site_names = List(<<Str("local_site1")>>)

====
